---------------------------- MODULE Spec2Model ----------------------------
(***************************************************************************)
(* A model of the 3D portfolio scene: the cluster layout generator, the    *)
(* city / road / obstacle builders of ProjectGallery3D and the per-frame   *)
(* drive controller CarControls with its keyboard listeners, and the       *)
(* paginated load of useGitHubRepos that App renders from.                 *)
(*                                                                         *)
(* Fixed-point units (JavaScript numbers are doubles):                     *)
(*   lengths     1/100 world unit     (planeRadius 80   -> 8000)           *)
(*   velocity    1/1000 unit per s    (cap 20           -> 20000)          *)
(*   time        milliseconds         (delta 0.1        -> 100)            *)
(*   angles      milliradians         (Math.PI          -> 3142)           *)
(*   Math.random() in [0,1) is an integer u in 0..999, read as u/1000      *)
(*   sines, cosines and unit vectors are scaled by 1000                    *)
(***************************************************************************)
EXTENDS Integers, Sequences, FiniteSets, TLC

VARIABLES
    \* ---- generateClusterPositions called on its own
    genArgs,           \* [count, centerX, centerZ, radius, minSep]
    genResult,         \* the returned positions
    genDone,           \* the call has returned
    \* ---- the render of ProjectGallery3D
    pc,                \* "props" | "cities" | "roads" | "mounted"
    reposByLanguage,   \* sequence (Object.keys order) of repo sequences
    cityData,
    roadSegments,
    obstacleCenters,
    treePositions,
    \* ---- CarControls
    held,              \* physical keys that are down (the keyboard itself)
    keys,              \* keys.current
    followCam,
    carPos,            \* carRef.current.position, <<x, z>>
    carRotY,           \* carRef.current.rotation.y
    velocity,          \* velocity.current
    yaw,               \* yaw.current
    proposed,          \* the last frame's proposed position
    collision,         \* the last frame's collision flag
    frames,            \* frames run so far
    \* ---- useGitHubRepos and the network
    username,
    fpc,               \* "start" | "awaitFetch" | "awaitText" | "awaitJson" | "done"
    page,
    allRepos,
    response,          \* the Response awaited on: [json, body]
    groupedRepos,      \* sequence (insertion order) of [language, repos]
    loading,
    error,             \* "null" or the Error's message
    requests,          \* page numbers requested, in order
    netlog             \* what the network answered: [page, outcome, body]

genVars   == <<genArgs, genResult, genDone>>
sceneVars == <<pc, reposByLanguage, cityData, roadSegments, obstacleCenters, treePositions>>
keyVars   == <<held, keys, followCam>>
carVars   == <<carPos, carRotY, velocity, yaw, proposed, collision, frames>>
fetchVars == <<username, fpc, page, allRepos, response, groupedRepos, loading, error,
               requests, netlog>>
vars      == <<genVars, sceneVars, keyVars, carVars, fetchVars>>

---------------------------------------------------------------------------
(* Arithmetic helpers                                                      *)

Abs(a) == IF a < 0 THEN -a ELSE a
Min(a, b) == IF a < b THEN a ELSE b
Max(a, b) == IF a > b THEN a ELSE b

\* division rounding toward zero (\div rounds toward minus infinity)
Quot(a, b) == IF a >= 0 THEN a \div b ELSE -((-a) \div b)

RECURSIVE IsqrtBS(_, _, _)
IsqrtBS(n, lo, hi) ==
    IF lo >= hi THEN lo
    ELSE LET mid == (lo + hi + 1) \div 2
         IN  IF mid * mid <= n THEN IsqrtBS(n, mid, hi)
                               ELSE IsqrtBS(n, lo, mid - 1)

\* Math.sqrt on integers: the floor of the square root
Isqrt(n) == IsqrtBS(n, 0, 46340)

\* Math.hypot
Hypot(dx, dz) == Isqrt(dx * dx + dz * dz)

\* sine of x mrad, 0 <= x <= 1571, times 1000 (Taylor to the 7th power)
SinQ(x) ==
    LET x2 == (x * x) \div 1000
        x3 == (x2 * x) \div 1000
        x5 == (x3 * x2) \div 1000
        x7 == (x5 * x2) \div 1000
    IN  Min(1000, x - (x3 \div 6) + (x5 \div 120) - (x7 \div 5040))

\* Math.sin, Math.cos: argument in mrad, value times 1000
Sin1000(a) ==
    LET m == a % 6283
    IN  IF m <= 1571 THEN SinQ(m)
        ELSE IF m <= 3142 THEN SinQ(3142 - m)
        ELSE IF m <= 4712 THEN -SinQ(m - 3142)
        ELSE -SinQ(6283 - m)

Cos1000(a) == Sin1000(a + 1571)

\* Math.random() * Math.PI * 2, from u in 0..999
RandomAngle(u) == (u * 6283) \div 1000

---------------------------------------------------------------------------
(* generateClusterPositions                                                *)

\* attempts allowed per requested point
AttemptFactor == 50

\* the candidate of one iteration: s = <<u1, u2>>, the two Math.random() draws
Candidate(centerX, centerZ, radius, s) ==
    LET angle == RandomAngle(s[1])
        r     == Quot(Isqrt(s[2] * 1000) * radius, 1000)
    IN  << centerX + Quot(Cos1000(angle) * r, 1000),
           centerZ + Quot(Sin1000(angle) * r, 1000) >>

\* Math.hypot(dx, dz) < d, decided on the squares
HypotLess(dx, dz, d) == d > 0 /\ dx * dx + dz * dz < d * d

\* the inner for loop: ok stays true iff no accepted point is nearer than minSep
SeparatedLastOnly(positions, p, minSep) ==
    \/ Len(positions) = 0
    \/ ~HypotLess(positions[Len(positions)][1] - p[1],
                  positions[Len(positions)][2] - p[2], minSep)

Separated(positions, p, minSep) ==
    \A i \in 1..Len(positions) :
        ~HypotLess(positions[i][1] - p[1], positions[i][2] - p[2], minSep)

\* the loop condition; st = [positions, attempts]
GenContinues(st, count) ==
    Len(st.positions) < count /\ st.attempts < count * AttemptFactor

\* one iteration of the while loop; cands[j] is the candidate the j-th pair
\* of draws of the random stream gives, and the stream is read cyclically
GenIteration(st, minSep, cands) ==
    LET p == cands[(st.attempts % Len(cands)) + 1]
    IN  [ positions |-> IF Separated(st.positions, p, minSep)
                           THEN Append(st.positions, p) ELSE st.positions,
          attempts  |-> st.attempts + 1 ]

\* up to n iterations of the while loop
RECURSIVE GenRun(_, _, _, _, _)
GenRun(st, n, count, minSep, cands) ==
    IF n = 0 \/ ~GenContinues(st, count) THEN st
    ELSE GenRun(GenIteration(st, minSep, cands), n - 1, count, minSep, cands)

\* the while loop, run AttemptFactor iterations at a time (the recursion
\* stays shallow; the iterations are those of the code, one by one)
RECURSIVE GenLoop(_, _, _, _)
GenLoop(st, count, minSep, cands) ==
    IF ~GenContinues(st, count) THEN st.positions
    ELSE GenLoop(GenRun(st, AttemptFactor, count, minSep, cands), count, minSep, cands)

generateClusterPositions(count, centerX, centerZ, radius, minSep, rnd) ==
    GenLoop([positions |-> <<>>, attempts |-> 0], count, minSep,
            [j \in 1..Len(rnd) |-> Candidate(centerX, centerZ, radius, rnd[j])])

---------------------------------------------------------------------------
(* A double that may be NaN: 0/0 is NaN, and NaN propagates                *)

FNum(v) == [nan |-> FALSE, v |-> v]
FNaN    == [nan |-> TRUE, v |-> 0]

\* a / b as a fraction of 1000.  Here b = 0 only when a = 0 (a hypot is
\* zero only when both legs are), so Infinity never arises.
FDiv1000(a, b) == IF b = 0 /\ a = 0 THEN FNaN ELSE FNum(Quot(a * 1000, b))

\* c + sign * u * len, u a fraction of 1000
FOffset(c, sign, u, len) ==
    IF u.nan THEN FNaN ELSE FNum(c + sign * Quot(u.v * len, 1000))

---------------------------------------------------------------------------
(* (B) cityData                                                            *)

planeRadius == 8000

cornerPositions ==
    << << -planeRadius + 1000, -planeRadius + 1000 >>,
       <<  planeRadius - 1000, -planeRadius + 1000 >>,
       << -planeRadius + 1000,  planeRadius - 1000 >>,
       <<  planeRadius - 1000,  planeRadius - 1000 >>,
       << -5000, 0 >>,
       <<  5000, 0 >>,
       << 0, -5000 >>,
       << 0,  5000 >> >>

\* minSep passed by cityData
BuildingSeparation == 500

\* one city; i is the index of lang in Object.keys (from 0), s the random
\* draws of this iteration: s.ux, s.uz, s.ur and the generator's stream s.rnd
City(i, repos, s) ==
    LET corner  == cornerPositions[(i % Len(cornerPositions)) + 1]
        centerX == corner[1] + Quot((s.ux - 500) * 10, 10)
        centerZ == corner[2] + Quot((s.uz - 500) * 10, 10)
        radius  == 1000 + Quot(s.ur * 500, 1000)
    IN  [ language          |-> i,
          centerX           |-> centerX,
          centerZ           |-> centerZ,
          clusterRadius     |-> radius,
          repos             |-> repos,
          buildingPositions |->
              generateClusterPositions(Len(repos), centerX, centerZ, radius,
                                       BuildingSeparation, s.rnd) ]

\* langs.map(...): rnd[i] holds the draws of city i
CityData(byLang, rnd) ==
    [i \in 1..Len(byLang) |-> City(i - 1, byLang[i], rnd[i])]

---------------------------------------------------------------------------
(* (C) roadSegments                                                        *)

RoadSegment(curr, next) ==
    LET dx   == next.centerX - curr.centerX
        dz   == next.centerZ - curr.centerZ
        dist == Hypot(dx, dz)
        ux   == FDiv1000(dx, dist)
        uz   == FDiv1000(dz, dist)
    IN  << FOffset(curr.centerX,  1, ux, curr.clusterRadius + 200),
           FOffset(curr.centerZ,  1, uz, curr.clusterRadius + 200),
           FOffset(next.centerX, -1, ux, next.clusterRadius + 200),
           FOffset(next.centerZ, -1, uz, next.clusterRadius + 200) >>

RoadSegments(cities) ==
    IF Len(cities) = 0 THEN <<>>
    ELSE [i \in 1..Len(cities) |->
             RoadSegment(cities[i], cities[(i % Len(cities)) + 1])]

---------------------------------------------------------------------------
(* (E) obstacleCenters and treePositions                                   *)

\* the tree drawn for one building of city; s = <<u1, u2>>
TreePoint(city, s) ==
    LET angle == RandomAngle(s[1])
        r     == Quot(city.clusterRadius * (850 + Quot(s[2] * 300, 1000)), 1000)
    IN  << city.centerX + Quot(Cos1000(angle) * r, 1000),
           city.centerZ + Quot(Sin1000(angle) * r, 1000) >>

\* the trees of one city; k trees were drawn before, rnd is read cyclically
CityTrees(city, rnd, k) ==
    [j \in 1..Len(city.buildingPositions) |->
        TreePoint(city, rnd[((k + j - 1) % Len(rnd)) + 1])]

\* cityData.forEach, with the buildings pushed only (no tree registered)
RECURSIVE ObstacleLoopNoTrees(_, _, _, _, _)
ObstacleLoopNoTrees(cities, i, rnd, obstacles, trees) ==
    IF i > Len(cities) THEN [obstacleCenters |-> obstacles, treePositions |-> trees]
    ELSE LET t == CityTrees(cities[i], rnd, Len(trees))
         IN  ObstacleLoopNoTrees(cities, i + 1, rnd,
                                 obstacles \o cities[i].buildingPositions,
                                 trees \o t)

\* cityData.forEach: the city's buildings, then one tree per building
RECURSIVE ObstacleLoop(_, _, _, _, _)
ObstacleLoop(cities, i, rnd, obstacles, trees) ==
    IF i > Len(cities) THEN [obstacleCenters |-> obstacles, treePositions |-> trees]
    ELSE LET t == CityTrees(cities[i], rnd, Len(trees))
         IN  ObstacleLoop(cities, i + 1, rnd,
                          obstacles \o cities[i].buildingPositions \o t,
                          trees \o t)

Obstacles(cities, rnd) == ObstacleLoop(cities, 1, rnd, <<>>, <<>>)

---------------------------------------------------------------------------
(* Bounds and the inputs drawn within them                                 *)

MaxCount     == 3     \* points requested from the generator called alone
MaxStreamLen == 3     \* period of a random stream
MaxLangs     == 8     \* language groups
MaxRepos     == 3     \* repos per language group

\* sequences over S of length 1..n
SeqsUpTo(S, n) == UNION { [1..k -> S] : k \in 1..n }

\* pairs of Math.random() draws fed to the generator called alone
ClusterDraws == { <<0, 640>>, <<20, 700>>, <<500, 640>> }

ClusterArgs ==
    [ count   : 0..MaxCount,
      centerX : {0, -7000},
      centerZ : {5000},
      radius  : {600, 1200},
      minSep  : {0, 500, 1500} ]

\* reposByLanguage: n groups of k repos, a repo being its index in the group
RepoInputs ==
    { [i \in 1..n |-> [j \in 1..k |-> j]] : n \in 0..MaxLangs, k \in 1..MaxRepos }

\* the draws of one city.  TightDraws repeats one point next to the centre,
\* so that every candidate after the first is rejected; SpreadDraws holds
\* four points far apart and one near-duplicate.
TightDraws ==
    [ux |-> 500, uz |-> 500, ur |-> 0, rnd |-> << <<250, 10>> >>]

SpreadDraws ==
    [ux |-> 120, uz |-> 900, ur |-> 999,
     rnd |-> << <<0, 640>>, <<20, 650>>, <<250, 640>>, <<500, 640>>, <<750, 640>> >>]

CitySamples == {TightDraws, SpreadDraws}

\* the draws of the trees of one render
TreeSamples ==
    { << <<500, 500>> >>,
      << <<250, 500>> >>,
      << <<0, 0>>, <<125, 999>>, <<600, 300>> >> }

---------------------------------------------------------------------------
(* Initial states                                                          *)

KeyNames ==
    {"w", "a", "s", "d", "ArrowUp", "ArrowLeft", "ArrowDown", "ArrowRight", "c"}

GenIdle ==
    /\ genArgs = [count |-> 0, centerX |-> 0, centerZ |-> 0, radius |-> 0, minSep |-> 0]
    /\ genResult = <<>>
    /\ genDone = FALSE

SceneEmpty ==
    /\ cityData = <<>>
    /\ roadSegments = <<>>
    /\ obstacleCenters = <<>>
    /\ treePositions = <<>>

\* the hook once its load is over: App renders the scene with groupedRepos
\* as the reposByLanguage prop (the scene keeps the repos of each group only)
FetchSettled ==
    /\ username = "whatiskeptiname"
    /\ fpc = "done"
    /\ page = 1
    /\ allRepos = <<>>
    /\ response = [json |-> TRUE, body |-> <<>>]
    /\ groupedRepos = reposByLanguage
    /\ loading = FALSE
    /\ error = "null"
    /\ requests = <<>>
    /\ netlog = <<>>

\* useRef / useState initial values of CarControls, and the car group's position
CarStart ==
    /\ held = {}
    /\ keys = [k \in KeyNames |-> FALSE]
    /\ followCam = FALSE
    /\ carPos = <<0, planeRadius - 2000>>
    /\ carRotY = 0
    /\ velocity = 0
    /\ yaw = 0
    /\ proposed = <<0, planeRadius - 2000>>
    /\ collision = FALSE
    /\ frames = 0

---------------------------------------------------------------------------
(* The generator called alone                                              *)

InitCluster ==
    /\ genArgs \in ClusterArgs
    /\ genResult = <<>>
    /\ genDone = FALSE
    /\ pc = "props" /\ reposByLanguage = <<>> /\ SceneEmpty
    /\ CarStart
    /\ FetchSettled

CallGenerate ==
    /\ ~genDone
    /\ \E rnd \in SeqsUpTo(ClusterDraws, MaxStreamLen) :
          genResult' = generateClusterPositions(genArgs.count, genArgs.centerX,
                          genArgs.centerZ, genArgs.radius, genArgs.minSep, rnd)
    /\ genDone' = TRUE
    /\ UNCHANGED <<genArgs, sceneVars, keyVars, carVars, fetchVars>>

NextCluster == CallGenerate

SpecCluster == InitCluster /\ [][NextCluster]_vars

---------------------------------------------------------------------------
(* The render of ProjectGallery3D: the three useMemo computations          *)

InitLayout ==
    /\ GenIdle
    /\ pc = "props"
    /\ reposByLanguage \in RepoInputs
    /\ SceneEmpty
    /\ CarStart
    /\ FetchSettled

\* what city i comes out as under each of its possible draws
CityOutcomes(byLang) ==
    [i \in 1..Len(byLang) |-> [s \in CitySamples |-> City(i - 1, byLang[i], s)]]

BuildCityData ==
    /\ pc = "props"
    /\ \E outcome \in {CityOutcomes(reposByLanguage)} :
       \E rnd \in [1..Len(reposByLanguage) -> CitySamples] :
          cityData' = [i \in 1..Len(reposByLanguage) |-> outcome[i][rnd[i]]]
    /\ pc' = "cities"
    /\ UNCHANGED <<reposByLanguage, roadSegments, obstacleCenters, treePositions,
                   genVars, keyVars, carVars, fetchVars>>

BuildRoadSegments ==
    /\ pc = "cities"
    /\ roadSegments' = RoadSegments(cityData)
    /\ pc' = "roads"
    /\ UNCHANGED <<reposByLanguage, cityData, obstacleCenters, treePositions,
                   genVars, keyVars, carVars, fetchVars>>

BuildObstacles ==
    /\ pc = "roads"
    /\ \E rnd \in TreeSamples :
          LET o == Obstacles(cityData, rnd)
          IN  /\ obstacleCenters' = o.obstacleCenters
              /\ treePositions' = o.treePositions
    /\ pc' = "mounted"
    /\ UNCHANGED <<reposByLanguage, cityData, roadSegments,
                   genVars, keyVars, carVars, fetchVars>>

NextLayout == BuildCityData \/ BuildRoadSegments \/ BuildObstacles

SpecLayout == InitLayout /\ [][NextLayout]_vars

---------------------------------------------------------------------------
(* CarControls: the keyboard listeners                                     *)

\* KeyboardEvent.key of a physical key, given whether Shift is down
KeyName(p, shifted) ==
    CASE p = "KeyW" -> IF shifted THEN "W" ELSE "w"
      [] p = "KeyA" -> IF shifted THEN "A" ELSE "a"
      [] p = "KeyS" -> IF shifted THEN "S" ELSE "s"
      [] p = "KeyD" -> IF shifted THEN "D" ELSE "d"
      [] p = "KeyC" -> IF shifted THEN "C" ELSE "c"
      [] p = "ShiftLeft" -> "Shift"
      [] OTHER -> p

\* onKeyDown
OnKeyDown(key) ==
    /\ keys' = IF key \in DOMAIN keys THEN [keys EXCEPT ![key] = TRUE] ELSE keys
    /\ followCam' = IF key \in {"c", "C"} THEN ~followCam ELSE followCam

\* onKeyUp
OnKeyUp(key) ==
    /\ keys' = IF key \in DOMAIN keys THEN [keys EXCEPT ![key] = FALSE] ELSE keys
    /\ UNCHANGED followCam

\* a key goes down: one keydown event
PressKey(p) ==
    /\ p \notin held
    /\ held' = held \cup {p}
    /\ OnKeyDown(KeyName(p, "ShiftLeft" \in held))
    /\ UNCHANGED <<genVars, sceneVars, carVars, fetchVars>>

\* a key stays down: the keyboard's auto-repeat sends keydown again
RepeatKey(p) ==
    /\ p \in held
    /\ OnKeyDown(KeyName(p, "ShiftLeft" \in held))
    /\ UNCHANGED <<held, genVars, sceneVars, carVars, fetchVars>>

\* a key goes up: one keyup event
ReleaseKey(p) ==
    /\ p \in held
    /\ held' = held \ {p}
    /\ OnKeyUp(KeyName(p, "ShiftLeft" \in held \ {p}))
    /\ UNCHANGED <<genVars, sceneVars, carVars, fetchVars>>

---------------------------------------------------------------------------
(* CarControls: useFrame                                                   *)

carRadius      == 100
obstacleRadius == 200
MaxForward     == 20000
MaxReverse     == -10000

\* acceleration / braking; dt in ms
LongitudinalNoClamp(v, k, dt) ==
    IF k["w"] \/ k["ArrowUp"] THEN v + dt * 10
    ELSE IF k["s"] \/ k["ArrowDown"] THEN v - dt * 10
    ELSE Quot(v * 98, 100)

Longitudinal(v, k, dt) ==
    IF k["w"] \/ k["ArrowUp"] THEN Min(MaxForward, v + dt * 10)
    ELSE IF k["s"] \/ k["ArrowDown"] THEN Max(MaxReverse, v - dt * 10)
    ELSE Quot(v * 98, 100)

\* steering; v is the velocity just updated
Steering(y, v, k, dt) ==
    IF Abs(v) > 500
    THEN y + (IF k["a"] \/ k["ArrowLeft"] THEN Quot(dt * 12, 10) ELSE 0)
           - (IF k["d"] \/ k["ArrowRight"] THEN Quot(dt * 12, 10) ELSE 0)
    ELSE y

\* (0, 0, -1) turned by rotY about the Y axis, times 1000: <<x, z>>
Forward(rotY) == << -Sin1000(rotY), -Cos1000(rotY) >>

\* position + forward * velocity * delta
Proposed(pos, rotY, v, dt) ==
    LET f    == Forward(rotY)
        step == Quot(v * dt, 1000)
    IN  << pos[1] + Quot(f[1] * step, 10000), pos[2] + Quot(f[2] * step, 10000) >>

\* the obstacle loop, with the car's radius alone
HitsObstacleCarOnly(p, obstacles) ==
    \E i \in 1..Len(obstacles) :
        HypotLess(p[1] - obstacles[i][1], p[2] - obstacles[i][2], carRadius)

\* the obstacle loop
HitsObstacle(p, obstacles) ==
    \E i \in 1..Len(obstacles) :
        HypotLess(p[1] - obstacles[i][1], p[2] - obstacles[i][2],
                  carRadius + obstacleRadius)

\* the bounds test, on x alone
OutOfBoundsXOnly(p) ==
    \/ p[1] < -planeRadius + carRadius
    \/ p[1] >  planeRadius - carRadius

\* the bounds test
OutOfBounds(p) ==
    \/ p[1] < -planeRadius + carRadius
    \/ p[1] >  planeRadius - carRadius
    \/ p[2] < -planeRadius + carRadius
    \/ p[2] >  planeRadius - carRadius

\* one frame; carRef.current is set once the scene is mounted
Frame(dt) ==
    /\ pc = "mounted"
    /\ LET v1   == Longitudinal(velocity, keys, dt)
           yaw1 == Steering(yaw, v1, keys, dt)
           prop == Proposed(carPos, yaw1, v1, dt)
           hit  == HitsObstacle(prop, obstacleCenters) \/ OutOfBounds(prop)
       IN  /\ yaw' = yaw1
           /\ carRotY' = yaw1
           /\ proposed' = prop
           /\ collision' = hit
           /\ carPos' = IF hit THEN carPos ELSE prop
           /\ velocity' = IF hit THEN 0 ELSE v1
    /\ frames' = frames + 1
    /\ UNCHANGED <<genVars, sceneVars, keyVars, fetchVars>>

---------------------------------------------------------------------------
(* The mounted scene with the car driven                                   *)

MaxFrames    == 3     \* frames of a drive
MaxKeyFrames == 2     \* frames among the keyboard events
HoldFrames   == 22    \* frames with the forward key held (2 s and a little more)

\* renders the drive starts from: no repos at all; eight groups of one repo
\* with the last city's building ahead of the car; the same with the last
\* city's tree where the car stands
DriveScenes ==
    { [byLang |-> <<>>, cityRnd |-> <<>>, treeRnd |-> << <<500, 500>> >>],
      [byLang |-> [i \in 1..8 |-> <<1>>], cityRnd |-> [i \in 1..8 |-> TightDraws],
       treeRnd |-> << <<500, 500>> >>],
      [byLang |-> [i \in 1..8 |-> <<1>>], cityRnd |-> [i \in 1..8 |-> TightDraws],
       treeRnd |-> << <<250, 500>> >>] }

InitDrive ==
    /\ GenIdle
    /\ pc = "mounted"
    /\ \E sc \in DriveScenes :
          /\ reposByLanguage = sc.byLang
          /\ cityData = CityData(sc.byLang, sc.cityRnd)
          /\ roadSegments = RoadSegments(CityData(sc.byLang, sc.cityRnd))
          /\ obstacleCenters =
                Obstacles(CityData(sc.byLang, sc.cityRnd), sc.treeRnd).obstacleCenters
          /\ treePositions =
                Obstacles(CityData(sc.byLang, sc.cityRnd), sc.treeRnd).treePositions
    /\ CarStart
    /\ FetchSettled

\* frame deltas: a regular slow frame, and a frame after a one second stall
Dts == {100, 1000}

DriveKeys == {"KeyW", "KeyS", "KeyA"}

NextDrive ==
    \/ \E p \in DriveKeys : PressKey(p)
    \/ \E p \in DriveKeys : ReleaseKey(p)
    \/ frames < MaxFrames /\ \E dt \in Dts : Frame(dt)

SpecDrive == InitDrive /\ [][NextDrive]_vars

\* the keyboard with its auto-repeat and Shift, and a few frames in between
KeyboardKeys == {"KeyC", "KeyW", "ShiftLeft"}

NextKeys ==
    \/ \E p \in KeyboardKeys : PressKey(p)
    \/ \E p \in KeyboardKeys : RepeatKey(p)
    \/ \E p \in KeyboardKeys : ReleaseKey(p)
    \/ frames < MaxKeyFrames /\ Frame(100)

SpecKeys == InitDrive /\ [][NextKeys]_vars

\* keys go down before the first frame and stay down; every frame then runs
\* with a forward key held, at delta = 0.1
HoldKeys == {"KeyW", "ArrowUp", "KeyA", "KeyD"}

ForwardHeld == keys["w"] \/ keys["ArrowUp"]

NextHold ==
    \/ frames = 0 /\ \E p \in HoldKeys : PressKey(p)
    \/ frames < HoldFrames /\ ForwardHeld /\ Frame(100)

SpecHold == InitDrive /\ [][NextHold]_vars

---------------------------------------------------------------------------
(* useGitHubRepos: the paginated load, and what App renders from it        *)

perPage == 100

MaxPages == 3     \* pages the account's repositories fill at most
MaxShort == 2     \* longest page that is shorter than perPage

\* repo.language as the API sends it; "" stands for null
RepoLanguages == {"", "JavaScript", "Python"}

\* the i-th repo of page p; the other fields of a repo are copied unread
Repo(p, i, language) == [name |-> <<p, i>>, language |-> language]

ShortPages(p) ==
    UNION { { [i \in 1..n |-> Repo(p, i, ls[i])] : ls \in [1..n -> RepoLanguages] }
            : n \in 0..MaxShort }

FullPages(p) ==
    { [i \in 1..perPage |-> Repo(p, i, "JavaScript")],
      [i \in 1..perPage |-> Repo(p, i, IF i % 3 = 0 THEN ""
                                        ELSE IF i % 3 = 1 THEN "Python"
                                        ELSE "JavaScript")] }

\* the bodies the API can answer page p with
PageBodies(p) == ShortPages(p) \cup (IF p < MaxPages THEN FullPages(p) ELSE {})

GroupIndex(grouped, lang) ==
    IF \E k \in 1..Len(grouped) : grouped[k].language = lang
    THEN CHOOSE k \in 1..Len(grouped) : grouped[k].language = lang
    ELSE 0

\* const lang = repo.language || "Other", and the entry pushed under it
GroupEntry(repo) ==
    [name |-> repo.name, language |-> IF repo.language = "" THEN "Other" ELSE repo.language]

\* one call of the forEach callback; st = [grouped, index]
GroupRepo(st, repos) ==
    LET entry == GroupEntry(repos[st.index])
        k     == GroupIndex(st.grouped, entry.language)
    IN  [ grouped |-> IF k = 0
                         THEN Append(st.grouped,
                                     [language |-> entry.language, repos |-> <<entry>>])
                         ELSE [st.grouped EXCEPT ![k].repos = Append(@, entry)],
          index   |-> st.index + 1 ]

\* up to n calls of the callback
RECURSIVE GroupRun(_, _, _)
GroupRun(st, n, repos) ==
    IF n = 0 \/ st.index > Len(repos) THEN st
    ELSE GroupRun(GroupRepo(st, repos), n - 1, repos)

\* allRepos.forEach(...), a quarter page of calls at a time (the recursion
\* stays shallow; the calls are those of the code, one by one)
RECURSIVE GroupLoop(_, _)
GroupLoop(st, repos) ==
    IF st.index > Len(repos) THEN st.grouped
    ELSE GroupLoop(GroupRun(st, perPage \div 4, repos), repos)

\* const grouped = {}; allRepos.forEach(...)
GroupAll(repos) == GroupLoop([grouped |-> <<>>, index |-> 1], repos)

\* the loop's two break tests, the second one left out
LastPageEmptyOnly(data) == Len(data) = 0

\* if (data.length === 0) break; ... if (data.length < perPage) break;
LastPage(data) == Len(data) = 0 \/ Len(data) < perPage

\* the fetch of the current page is issued and awaited on
RequestPage(p) ==
    /\ requests' = Append(requests, p)
    /\ fpc' = "awaitFetch"

\* a catch block that also publishes the pages collected so far
CatchPublishing(message) ==
    /\ error' = message
    /\ loading' = FALSE
    /\ groupedRepos' = GroupAll(allRepos)
    /\ fpc' = "done"

\* catch (err) { setError(err); setLoading(false); }
Catch(message) ==
    /\ error' = message
    /\ loading' = FALSE
    /\ groupedRepos' = groupedRepos
    /\ fpc' = "done"

\* what App returns for the hook's values; groupedRepos is an object from
\* useState({}) on, so !groupedRepos is false
AppView ==
    IF loading THEN "Loading"
    ELSE IF error # "null" THEN "Error"
    ELSE "Canvas"

InitFetch ==
    /\ username \in {"", "whatiskeptiname"}
    /\ fpc = "start"
    /\ page = 1
    /\ allRepos = <<>>
    /\ response = [json |-> TRUE, body |-> <<>>]
    /\ groupedRepos = <<>>
    /\ loading = TRUE
    /\ error = "null"
    /\ requests = <<>>
    /\ netlog = <<>>
    /\ GenIdle
    /\ pc = "app" /\ reposByLanguage = <<>> /\ SceneEmpty
    /\ CarStart

\* the effect: the username test, else fetchRepos() up to its first await
RunEffect ==
    /\ fpc = "start"
    /\ IF username = ""
       THEN /\ error' = "No GitHub username provided."
            /\ loading' = FALSE
            /\ fpc' = "done"
            /\ UNCHANGED <<page, allRepos, requests>>
       ELSE /\ page' = 1
            /\ allRepos' = <<>>
            /\ RequestPage(1)
            /\ UNCHANGED <<error, loading>>
    /\ UNCHANGED <<username, response, groupedRepos, netlog>>
    /\ UNCHANGED <<genVars, sceneVars, keyVars, carVars>>

\* fetch() rejects: no answer came
FetchRejects ==
    /\ fpc = "awaitFetch"
    /\ netlog' = Append(netlog, [page |-> page, outcome |-> "rejected", body |-> <<>>])
    /\ Catch("Failed to fetch")
    /\ UNCHANGED <<username, page, allRepos, response, requests>>
    /\ UNCHANGED <<genVars, sceneVars, keyVars, carVars>>

\* fetch() resolves with a status that is not a success: response.text() is
\* awaited on for the message
FetchNotOk ==
    /\ fpc = "awaitFetch"
    /\ netlog' = Append(netlog, [page |-> page, outcome |-> "status", body |-> <<>>])
    /\ fpc' = "awaitText"
    /\ UNCHANGED <<username, page, allRepos, response, groupedRepos, loading, error,
                   requests>>
    /\ UNCHANGED <<genVars, sceneVars, keyVars, carVars>>

\* the text arrives (or fails to) and the Error is thrown
TextSettles ==
    /\ fpc = "awaitText"
    /\ \E message \in {"GitHub API returned 403", "Failed to fetch"} : Catch(message)
    /\ UNCHANGED <<username, page, allRepos, response, requests, netlog>>
    /\ UNCHANGED <<genVars, sceneVars, keyVars, carVars>>

\* fetch() resolves with a success status: response.json() is awaited on
FetchOk ==
    /\ fpc = "awaitFetch"
    /\ \/ \E body \in PageBodies(page) :
             /\ response' = [json |-> TRUE, body |-> body]
             /\ netlog' = Append(netlog, [page |-> page, outcome |-> "ok", body |-> body])
       \/ /\ response' = [json |-> FALSE, body |-> <<>>]
          /\ netlog' = Append(netlog,
                [page |-> page, outcome |-> "malformed", body |-> <<>>])
    /\ fpc' = "awaitJson"
    /\ UNCHANGED <<username, page, allRepos, groupedRepos, loading, error, requests>>
    /\ UNCHANGED <<genVars, sceneVars, keyVars, carVars>>

\* response.json() rejects: the body is not JSON
JsonRejects ==
    /\ fpc = "awaitJson"
    /\ ~response.json
    /\ Catch("Unexpected token")
    /\ UNCHANGED <<username, page, allRepos, response, requests, netlog>>
    /\ UNCHANGED <<genVars, sceneVars, keyVars, carVars>>

\* response.json() resolves: the rest of the loop body, then either the next
\* request or the grouping and the two setters
JsonResolves ==
    /\ fpc = "awaitJson"
    /\ response.json
    /\ LET data == response.body
           all  == IF Len(data) = 0 THEN allRepos ELSE allRepos \o data
       IN  /\ allRepos' = all
           /\ IF LastPage(data)
              THEN /\ groupedRepos' = GroupAll(all)
                   /\ loading' = FALSE
                   /\ fpc' = "done"
                   /\ UNCHANGED <<page, requests>>
              ELSE /\ page' = page + 1
                   /\ RequestPage(page + 1)
                   /\ UNCHANGED <<groupedRepos, loading>>
    /\ UNCHANGED <<username, response, error, netlog>>
    /\ UNCHANGED <<genVars, sceneVars, keyVars, carVars>>

NextFetch ==
    \/ RunEffect
    \/ FetchRejects
    \/ FetchNotOk
    \/ TextSettles
    \/ FetchOk
    \/ JsonRejects
    \/ JsonResolves

SpecFetch == InitFetch /\ [][NextFetch]_vars

---------------------------------------------------------------------------
(* Properties                                                              *)

RECURSIVE SumBuildings(_, _)
SumBuildings(cities, i) ==
    IF i > Len(cities) THEN 0
    ELSE Len(cities[i].buildingPositions) + SumBuildings(cities, i + 1)

Range(f) == { f[i] : i \in DOMAIN f }

FrameTaken == frames' = frames + 1

InsideSquare(p) ==
    /\ -planeRadius + 100 <= p[1] /\ p[1] <= planeRadius - 100
    /\ -planeRadius + 100 <= p[2] /\ p[2] <= planeRadius - 100

NearObstacle(p) ==
    \E i \in 1..Len(obstacleCenters) :
        Hypot(p[1] - obstacleCenters[i][1], p[2] - obstacleCenters[i][2]) < 300

\* C1: generateClusterPositions returns at most count points, and any two of
\* the points it returns are at distance >= minSep from each other.
C1_ClusterSeparated ==
    genDone =>
        /\ Len(genResult) <= genArgs.count
        /\ \A i, j \in 1..Len(genResult) :
              i < j => Hypot(genResult[i][1] - genResult[j][1],
                             genResult[i][2] - genResult[j][2]) >= genArgs.minSep

\* a call that accepted two points, rejected candidates and fell short
C1_Witness ==
    /\ genDone
    /\ genArgs.minSep > 0
    /\ Len(genResult) >= 2
    /\ Len(genResult) < genArgs.count

\* C2: every city has as many building positions as repos.
C2_BuildingsMatchRepos ==
    pc # "props" =>
        \A i \in 1..Len(cityData) :
            Len(cityData[i].buildingPositions) = Len(cityData[i].repos)

\* C3: the road builder gives n segments for n >= 2 cities, and none for
\* n <= 1 (n = 0 and n = 1).
C3_RoadCount ==
    pc \in {"roads", "mounted"} =>
        Len(roadSegments) = IF Len(cityData) >= 2 THEN Len(cityData) ELSE 0

\* C4: with two adjacent cities on the same centre (a single city is its own
\* neighbour) the unit vector is taken as zero, so every coordinate of every
\* road segment is a defined number.
C4_RoadCoordinatesDefined ==
    pc \in {"roads", "mounted"} =>
        \A i \in 1..Len(roadSegments) : \A c \in 1..4 : ~roadSegments[i][c].nan

\* C5: a frame whose proposed position is nearer than 3.0 to an obstacle
\* leaves the car where it was, with velocity 0.
C5_ObstacleRejection ==
    [][FrameTaken /\ NearObstacle(proposed') => carPos' = carPos /\ velocity' = 0]_vars

\* a frame rejected by an obstacle alone
C5_Witness ==
    /\ frames > 0
    /\ NearObstacle(proposed)
    /\ InsideSquare(proposed)
    /\ proposed # carPos
    /\ velocity = 0

\* C6: a frame whose proposed position has x or z outside
\* [-planeRadius + 1, planeRadius - 1] leaves the car where it was; so the
\* car, which starts inside that square, stays inside it.
C6_BoundaryRejection ==
    [][ /\ FrameTaken /\ ~InsideSquare(proposed') => carPos' = carPos
        /\ InsideSquare(carPos)
        /\ InsideSquare(carPos') ]_vars

\* a frame rejected by the bounds alone
C6_Witness ==
    /\ frames > 0
    /\ ~InsideSquare(proposed)
    /\ ~NearObstacle(proposed)
    /\ carPos # proposed

\* C7, as claimed: with a forward key held on every frame at delta 0.1 the
\* velocity never decreases from one frame to the next and never exceeds 20.
C7_NeverDecreases ==
    [][FrameTaken => velocity' >= velocity /\ velocity' <= 20000]_vars

\* C7, amended: with a forward key held on every frame at delta 0.1 the
\* velocity never exceeds 20; a frame whose motion is not rejected raises it
\* by 1 up to 20 (so it does not decrease), and a rejected frame sets it to 0.
C7_RisesUnlessRejected ==
    [][FrameTaken =>
          /\ velocity' <= 20000
          /\ ~collision' => velocity' >= velocity
                            /\ velocity' = Min(20000, velocity + 1000)
          /\ collision' => velocity' = 0 ]_vars

\* 20 frames from rest with none rejected: the velocity is at the cap
C7_Witness ==
    /\ frames = 20
    /\ velocity = 20000
    /\ ~collision
    /\ carPos[2] < planeRadius - 2000 - 2000

\* C8: a frame whose motion is rejected leaves the car's transform as it
\* was: the position, and the yaw too.
C8_RejectedKeepsTransform ==
    [][FrameTaken /\ collision' => carPos' = carPos /\ carRotY' = carRotY]_vars

\* C9: follow mode flips exactly when the toggle key goes down, once per
\* press: not on the keydown events a held key repeats, and not on frames.
C9_EdgeTriggered ==
    [][(followCam' # followCam) <=> ("KeyC" \notin held /\ "KeyC" \in held')]_vars

RequestFailed == \E i \in 1..Len(netlog) : netlog[i].outcome # "ok"

\* C11: once a page request has failed (a non-success status, no answer, or a
\* body that does not parse; on the first page or after pages that
\* succeeded), nothing is ever published as the grouped result, and when the
\* load is over error is set, loading is false and App renders the error
\* message, not the scene.
C11_FailureShowsError ==
    RequestFailed =>
        /\ groupedRepos = <<>>
        /\ fpc = "done" => error # "null" /\ ~loading /\ AppView = "Error"

\* a load that failed on its second page, after a full first page was read
C11_Witness ==
    /\ fpc = "done"
    /\ Len(netlog) = 2
    /\ netlog[1].outcome = "ok" /\ Len(netlog[1].body) = perPage
    /\ netlog[2].outcome = "status"
    /\ Len(allRepos) = perPage
    /\ AppView = "Error"

\* the repos of the pages the network served, in the order served
RECURSIVE Fetched(_)
Fetched(n) == IF n = 0 THEN <<>> ELSE Fetched(n - 1) \o netlog[n].body

LanguageOrOther(repo) == IF repo.language = "" THEN "Other" ELSE repo.language

\* the repos served whose group is lang, in the order served
ServedUnder(lang) ==
    LET mine(repo) == LanguageOrOther(repo) = lang
        served     == SelectSeq(Fetched(Len(netlog)), mine)
    IN  [i \in 1..Len(served) |-> [name |-> served[i].name, language |-> lang]]

\* C12: the pages requested are 1, 2, 3, ... in order; a further page is
\* requested only after a page of at least perPage items; and when the load
\* ends without an error the last page served had fewer than perPage items,
\* every page requested was served, and the grouped result holds every repo
\* served exactly once, under its language, or under "Other" when it has none.
C12_Pagination ==
    /\ \A i \in 1..Len(requests) : requests[i] = i
    /\ \A i \in 1..Len(netlog) : netlog[i].page = i
    /\ \A i \in 1..(Len(requests) - 1) :
          netlog[i].outcome = "ok" /\ Len(netlog[i].body) >= perPage
    /\ (fpc = "done" /\ error = "null") =>
          /\ Len(requests) >= 1
          /\ Len(netlog) = Len(requests)
          /\ Len(netlog[Len(netlog)].body) < perPage
          /\ \A j, k \in 1..Len(groupedRepos) :
                groupedRepos[j].language = groupedRepos[k].language => j = k
          /\ \A k \in 1..Len(groupedRepos) :
                groupedRepos[k].repos = ServedUnder(groupedRepos[k].language)
          /\ \A i \in 1..Len(Fetched(Len(netlog))) :
                \E k \in 1..Len(groupedRepos) :
                    groupedRepos[k].language = LanguageOrOther(Fetched(Len(netlog))[i])

\* a load of two pages that ended on a short page holding a repo with no
\* language
C12_Witness ==
    /\ fpc = "done" /\ error = "null"
    /\ requests = <<1, 2>>
    /\ Len(netlog[2].body) = MaxShort
    /\ netlog[2].body[1].language = ""
    /\ \E k \in 1..Len(groupedRepos) :
          /\ groupedRepos[k].language = "Other"
          /\ \E i \in 1..Len(groupedRepos[k].repos) :
                groupedRepos[k].repos[i].name = <<2, 1>>

\* C13: a drive key that is not held down on the keyboard has a false entry
\* in keys.current, whatever key names its keydown and keyup events carried.
C13_ReleasedKeyIsFalse ==
    \A p \in DriveKeys : p \notin held => ~keys[KeyName(p, FALSE)]

\* C14: the car is never nearer than carRadius + obstacleRadius to an
\* obstacle point, from its first position on.
C14_ClearOfObstacles ==
    \A i \in 1..Len(obstacleCenters) :
        Hypot(carPos[1] - obstacleCenters[i][1], carPos[2] - obstacleCenters[i][2])
            >= carRadius + obstacleRadius

=============================================================================
